---- MODULE Spec2Model ----
(***************************************************************************)
(* Histogram1D (src/histogram/histogram.py): a grid of histograms sharing  *)
(* one table of bin edges, with indexing (numpy views), addition, axis     *)
(* reduction, reset, per-cell statistics, and the index resolver           *)
(* _convert_item.                                                          *)
(*                                                                         *)
(* Conventions.  Python's None is the empty sequence, Some(x) == <<x>>.    *)
(* Sequences are 1-based, so axis i of the source is position i+1 here and *)
(* a 0-based coordinate c of the source is kept as the number c.           *)
(***************************************************************************)
EXTENDS Integers, Sequences, FiniteSets, TLC

VARIABLES
    hist,      \* the Histogram1D objects created so far, in creation order
    mem,       \* the numpy buffers each creation allocated (flat, row-major)
    filled,    \* ghost: samples filled into each cell of a buffer
    nfill,     \* sample values handed to fill so far (bounded by MaxSamples)
    r_item,    \* index resolver: the selector passed to _convert_item
    r_shape,   \* index resolver: the shape passed to _convert_item
    r_ret      \* index resolver: what the call produced ("pending" before)

vars == <<hist, mem, filled, nfill, r_item, r_shape, r_ret>>

-----------------------------------------------------------------------------
(* Bounds of the model *)

MaxDim == 2        \* largest size of a grid axis
MaxHist == 3       \* histogram objects alive in one run
MaxSamples == 4    \* SpecFill: sample values handed to fill in one run
MaxFilled == 1     \* Spec: sample values handed to fill in one run

(* Program constant: assert len(data_shape) <= 2 *)
MaxRank == 2

-----------------------------------------------------------------------------
(* Python values *)

None == <<>>
Some(x) == <<x>>

(* One component of a selector: an int, a slice(start, stop, step) or None *)
IntC(v) == [t |-> "int", v |-> v, start |-> None, stop |-> None, step |-> None]
SliceC(a, b, c) == [t |-> "slice", v |-> 0, start |-> a, stop |-> b, step |-> c]
NoneC == [t |-> "none", v |-> 0, start |-> None, stop |-> None, step |-> None]
Whole == SliceC(None, None, None)

(* A selector as the caller passes it: a bare int, or a tuple of components *)
BareItem(v) == [bare |-> TRUE, v |-> v, comps |-> <<>>]
TupleItem(cs) == [bare |-> FALSE, v |-> 0, comps |-> cs]

-----------------------------------------------------------------------------
(* _convert_item *)

(* lines 432-433: a bare int becomes the one-slice tuple *)
ItemTuple(item) ==
    IF item.bare
    THEN <<SliceC(Some(item.v), Some(item.v + 1), Some(1))>>
    ELSE item.comps

(* lines 437-456, one turn of the first loop for component `index` at       *)
(* position i (1-based): "continue" (not validated), "ok", or the exception *)
(* raised.  shape[i] with i beyond the shape raises IndexError itself, and  *)
(* None <= int raises TypeError.                                            *)
CheckIndex(index, i, shape) ==
    CASE index.t = "slice" ->
            IF index.start = None \/ index.step = None THEN "continue"
            ELSE IF index.start[1] < 0 THEN "IndexError"
            ELSE IF i > Len(shape) THEN "IndexError"
            ELSE IF index.stop = None THEN "TypeError"
            ELSE IF index.stop[1] <= shape[i] THEN "ok"
            ELSE "IndexError"
      [] index.t = "int" ->
            IF index.v < 0 THEN "IndexError"
            ELSE IF i > Len(shape) THEN "IndexError"
            ELSE IF index.v < shape[i] THEN "ok"
            ELSE "IndexError"
      [] OTHER -> "continue"

(* lines 435-456: the first loop; "" when no component raises *)
RECURSIVE Validate(_, _, _)
Validate(item, shape, i) ==
    IF i > Len(item) THEN ""
    ELSE LET c == CheckIndex(item[i], i, shape)
         IN  IF c \in {"IndexError", "TypeError"} THEN c
             ELSE Validate(item, shape, i + 1)

(* lines 458-480: the second loop, one axis *)
AxisIndex(item, i) ==
    IF i <= Len(item)
    THEN CASE item[i].t = "int" ->
                SliceC(Some(item[i].v), Some(item[i].v + 1), Some(1))
           [] item[i].t = "slice" ->
                IF item[i].start = None /\ item[i].stop = None
                THEN Whole
                ELSE item[i]
           [] OTHER -> Whole
    ELSE Whole

(* a resolver that keeps the axes addressed by an int in the output shape *)
AxisKeptInt(item, i) ==
    IF i <= Len(item)
    THEN CASE item[i].t = "slice" ->
                item[i].start = None /\ item[i].stop = None
           [] OTHER -> TRUE
    ELSE TRUE

(* lines 458-480: whether the second loop adds the axis to data_shape *)
AxisKept(item, i) ==
    IF i <= Len(item)
    THEN CASE item[i].t = "int" -> FALSE
           [] item[i].t = "slice" ->
                item[i].start = None /\ item[i].stop = None
           [] OTHER -> TRUE
    ELSE TRUE

RECURSIVE KeptShape(_, _, _)
KeptShape(item, shape, i) ==
    IF i > Len(shape) THEN <<>>
    ELSE (IF AxisKept(item, i) THEN <<shape[i]>> ELSE <<>>)
         \o KeptShape(item, shape, i + 1)

(* x[:-1] *)
DropLast(s) == IF Len(s) = 0 THEN <<>> ELSE SubSeq(s, 1, Len(s) - 1)

(* lines 427-483 *)
ConvertItem(item0, shape) ==
    LET item == ItemTuple(item0)
        exc == Validate(item, shape, 1)
    IN  IF exc # ""
        THEN [exc |-> exc, indices |-> <<>>, data_shape |-> <<>>]
        ELSE [exc |-> "",
              indices |-> [i \in 1..Len(shape) |-> AxisIndex(item, i)],
              data_shape |-> DropLast(KeptShape(item, shape, 1))]

-----------------------------------------------------------------------------
(* Inputs of the index resolver *)

Ints == (0 - 1)..MaxDim

SliceComps ==
    { Whole,
      SliceC(None, None, Some(1)),
      SliceC(None, Some(1), None),
      SliceC(Some(0), Some(1), None),
      SliceC(Some(0), Some(1), Some(1)),
      SliceC(Some(0), Some(MaxDim), Some(1)),
      SliceC(Some(0), Some(MaxDim + 1), None),
      SliceC(Some(0), Some(MaxDim + 1), Some(1)),
      SliceC(Some(0 - 1), Some(1), None),
      SliceC(Some(0 - 1), Some(1), Some(1)),
      SliceC(Some(0), None, Some(1)) }

Comps == {IntC(v) : v \in Ints} \cup SliceComps \cup {NoneC}

RECURSIVE SeqsUpTo(_, _)
SeqsUpTo(S, n) ==
    IF n = 0 THEN {<<>>}
    ELSE LET shorter == SeqsUpTo(S, n - 1)
         IN  shorter \cup {Append(s, x) : s \in {t \in shorter : Len(t) = n - 1}, x \in S}

Dims == 1..MaxDim
GridShapes == SeqsUpTo(Dims, MaxRank)

-----------------------------------------------------------------------------
(* numpy arrays.  An array is a window on a buffer: `offs` lists, in        *)
(* row-major order of `shape`, the positions of its elements in buffer      *)
(* mem[base][fld].  `scalar` marks a numpy scalar (np.uint32, np.uint64):   *)
(* what indexing a 0-d array with () or an arithmetic result of rank 0      *)
(* gives; it is immutable and is not an ndarray.                            *)

RECURSIVE Prod(_)
Prod(s) == IF Len(s) = 0 THEN 1 ELSE s[1] * Prod(Tail(s))

RECURSIVE SumSeq(_)
SumSeq(s) == IF Len(s) = 0 THEN 0 ELSE s[1] + SumSeq(Tail(s))

Max2(a, b) == IF a >= b THEN a ELSE b
Min2(a, b) == IF a <= b THEN a ELSE b

Stride(shape, i) == Prod(SubSeq(shape, i + 1, Len(shape)))

(* 0-based coordinate along axis i (1-based) of the k-th element (1-based) *)
CoordOf(shape, k, i) == ((k - 1) \div Stride(shape, i)) % shape[i]

(* 1-based flat position of the 0-based coordinates c *)
FlatOf(shape, c) ==
    1 + SumSeq([i \in 1..Len(shape) |-> c[i] * Stride(shape, i)])

Iota(n) == [k \in 1..n |-> k]

Values(m, a) == [k \in 1..Len(a.offs) |-> m[a.base][a.fld][a.offs[k]]]

(* a fresh array owning buffer `fld` of object `slot` *)
FreshArr(slot, fld, shape, n, scalar, dtype) ==
    [base |-> slot, fld |-> fld, shape |-> shape, offs |-> Iota(n),
     scalar |-> scalar, dtype |-> dtype]

(* the flag ndpointer(flags="C_CONTIGUOUS") tests *)
IsContiguous(a) == \A k \in 1..(Len(a.offs) - 1) : a.offs[k + 1] = a.offs[k] + 1

(* slice.indices(n) for a positive step: the 0-based coordinates selected *)
SliceCoords(sl, n) ==
    LET step == IF sl.step = None THEN 1 ELSE sl.step[1]
        start == IF sl.start = None THEN 0
                 ELSE IF sl.start[1] < 0 THEN Max2(sl.start[1] + n, 0)
                 ELSE Min2(sl.start[1], n)
        stop == IF sl.stop = None THEN n
                ELSE IF sl.stop[1] < 0 THEN Max2(sl.stop[1] + n, 0)
                ELSE Min2(sl.stop[1], n)
        count == IF stop > start THEN (stop - start + step - 1) \div step ELSE 0
    IN  [j \in 1..count |-> start + (j - 1) * step]

(* a[indices] for a tuple of slices no longer than a's rank: a view *)
SliceView(a, indices) ==
    LET n == Len(a.shape)
        sel == [i \in 1..n |->
                  SliceCoords(IF i <= Len(indices) THEN indices[i] ELSE Whole,
                              a.shape[i])]
        shape == [i \in 1..n |-> Len(sel[i])]
    IN  [a EXCEPT
           !.shape = shape,
           !.offs = [k \in 1..Prod(shape) |->
                       a.offs[FlatOf(a.shape,
                                     [i \in 1..n |-> sel[i][CoordOf(shape, k, i) + 1]])]]]

(* np.squeeze: axes of size 1 removed, same elements *)
Squeeze(a) == [a EXCEPT !.shape = SelectSeq(a.shape, LAMBDA d : d # 1)]

(* the shape of a with axis k (0-based) removed *)
WithoutAxis(shape, k) ==
    [i \in 1..(Len(shape) - 1) |-> IF i <= k THEN shape[i] ELSE shape[i + 1]]

(* a reduction that leaves out the last slice along the axis *)
AxisSumValuesShort(m, a, k) ==
    LET rs == WithoutAxis(a.shape, k)
        v == Values(m, a)
    IN  [r \in 1..Prod(rs) |->
           SumSeq([j \in 1..(a.shape[k + 1] - 1) |->
                     v[FlatOf(a.shape,
                              [i \in 1..Len(a.shape) |->
                                 IF i <= k THEN CoordOf(rs, r, i)
                                 ELSE IF i = k + 1 THEN j - 1
                                 ELSE CoordOf(rs, r, i - 1)])]])]

(* a.sum(axis=k): the values, row-major over WithoutAxis(a.shape, k) *)
AxisSumValues(m, a, k) ==
    LET rs == WithoutAxis(a.shape, k)
        v == Values(m, a)
    IN  [r \in 1..Prod(rs) |->
           SumSeq([j \in 1..a.shape[k + 1] |->
                     v[FlatOf(a.shape,
                              [i \in 1..Len(a.shape) |->
                                 IF i <= k THEN CoordOf(rs, r, i)
                                 ELSE IF i = k + 1 THEN j - 1
                                 ELSE CoordOf(rs, r, i - 1)])]])]

(* numpy broadcasting of two shapes, aligned on the right *)
DimAt(shape, r, i) ==
    LET j == i - (r - Len(shape)) IN IF j >= 1 THEN shape[j] ELSE 1

CanBroadcast(sa, sb) ==
    LET r == Max2(Len(sa), Len(sb))
    IN  \A i \in 1..r :
           \/ DimAt(sa, r, i) = DimAt(sb, r, i)
           \/ DimAt(sa, r, i) = 1
           \/ DimAt(sb, r, i) = 1

BroadcastShape(sa, sb) ==
    LET r == Max2(Len(sa), Len(sb))
    IN  [i \in 1..r |->
           IF DimAt(sa, r, i) = 1 THEN DimAt(sb, r, i) ELSE DimAt(sa, r, i)]

(* the element of a (values va) that element k of the broadcast shape bs reads *)
BroadcastAt(va, sa, bs, k) ==
    LET r == Len(bs)
        off == r - Len(sa)
    IN  va[FlatOf(sa, [j \in 1..Len(sa) |->
                         IF sa[j] = 1 THEN 0 ELSE CoordOf(bs, k, j + off)])]

(* a + b, the values, row-major over BroadcastShape *)
SumValues(m, a, b) ==
    LET bs == BroadcastShape(a.shape, b.shape)
        va == Values(m, a)
        vb == Values(m, b)
    IN  [k \in 1..Prod(bs) |->
           BroadcastAt(va, a.shape, bs, k) + BroadcastAt(vb, b.shape, bs, k)]

(* (a == b).all() for broadcastable a, b *)
AllEqual(m, a, b) ==
    LET bs == BroadcastShape(a.shape, b.shape)
        va == Values(m, a)
        vb == Values(m, b)
    IN  \A k \in 1..Prod(bs) :
           BroadcastAt(va, a.shape, bs, k) = BroadcastAt(vb, b.shape, bs, k)

WiderDtype(a, b) == IF a.dtype = "uint64" \/ b.dtype = "uint64" THEN "uint64" ELSE "uint32"

-----------------------------------------------------------------------------
(* Histogram1D objects *)

Fields == {"data", "underflow", "overflow"}

Zeros(n) == [k \in 1..n |-> 0]

(* np.sort: insertion of x into the sorted sequence s *)
RECURSIVE Insert(_, _)
Insert(x, s) ==
    IF Len(s) = 0 THEN <<x>>
    ELSE IF x <= s[1] THEN <<x>> \o s
    ELSE <<s[1]>> \o Insert(x, Tail(s))

RECURSIVE SortAsc(_)
SortAsc(s) == IF Len(s) = 0 THEN <<>> ELSE Insert(s[1], SortAsc(Tail(s)))

(* lines 47-59: the two grid sizes handed to the C routine *)
N0(data_shape) == IF Len(data_shape) = 2 THEN data_shape[1] ELSE 0

N1(data_shape) ==
    IF Len(data_shape) = 1 THEN data_shape[1]
    ELSE IF Len(data_shape) = 2 THEN data_shape[2]
    ELSE 1

(* how an object came to be (ghost): op is "new", "getitem", "add" or       *)
(* "combine"; a, b are the operands' positions in hist, axis combine's axis *)
Origin(op, a, b, axis) == [op |-> op, a |-> a, b |-> b, axis |-> axis]

(* lines 30-59: Histogram1D(bin_edges, data_shape) as object number slot,   *)
(* with its three freshly allocated arrays                                  *)
NewHistogram(slot, bin_edges, data_shape, origin) ==
    LET n_bins == Len(bin_edges) - 1
        shape == data_shape \o <<n_bins>>
    IN  [shape |-> shape,
         bins |-> SortAsc(bin_edges),
         n_bins |-> n_bins,
         n_0 |-> N0(data_shape),
         n_1 |-> N1(data_shape),
         data |-> FreshArr(slot, "data", shape, Prod(shape), FALSE, "uint32"),
         underflow |-> FreshArr(slot, "underflow", data_shape, Prod(data_shape),
                                FALSE, "uint32"),
         overflow |-> FreshArr(slot, "overflow", data_shape, Prod(data_shape),
                               FALSE, "uint32"),
         origin |-> origin]

(* arrays that are allocated but not cleared *)
NewBuffersStale(data_shape, n_bins) ==
    [data |-> Zeros(Prod(data_shape) * n_bins),
     underflow |-> [k \in 1..Prod(data_shape) |-> 1],
     overflow |-> Zeros(Prod(data_shape))]

(* lines 37-45: the zeroed contents of the three arrays *)
NewBuffers(data_shape, n_bins) ==
    [data |-> Zeros(Prod(data_shape) * n_bins),
     underflow |-> Zeros(Prod(data_shape)),
     overflow |-> Zeros(Prod(data_shape))]

Slots == 1..Len(hist)

(* the grid the arrays of h really have, and the one h records *)
GridOf(h) == DropLast(h.data.shape)
CellShape(h) == DropLast(h.shape)

(* the invariant of the data model *)
WellFormed(h) ==
    /\ GridOf(h) = CellShape(h)
    /\ h.data.shape = h.shape
    /\ h.underflow.shape = CellShape(h)
    /\ h.overflow.shape = CellShape(h)

(* the counts of cell k (1-based, row-major over the grid) of h *)
CellCounts(m, h, k) ==
    [j \in 1..h.n_bins |-> m[h.data.base][h.data.fld][h.data.offs[(k - 1) * h.n_bins + j]]]

-----------------------------------------------------------------------------
(* Inputs of the histogram operations *)

(* bin_edges arrays handed to the constructor; the second is unsorted and  *)
(* sorts to other edges than the first                                    *)
EdgeInputs == {<<0, 1, 4>>, <<2, 0, 1>>}

(* data_shape tuples handed to the constructor *)
ConstructShapes == {<<>>, <<2>>, <<2, 1>>}

(* sample values: below the first edge, on an edge (first, inner, last) and *)
(* at or above every last edge                                              *)
SampleValues == {0 - 1, 0, 1, 2, 4}

-----------------------------------------------------------------------------
(* Construction *)

Construct(bin_edges, data_shape) ==
    /\ Len(hist) < MaxHist
    /\ Len(data_shape) <= MaxRank
    /\ LET slot == Len(hist) + 1
       IN  /\ hist' = Append(hist, NewHistogram(slot, bin_edges, data_shape,
                                                Origin("new", 0, 0, 0)))
           /\ mem' = Append(mem, NewBuffers(data_shape, Len(bin_edges) - 1))
           /\ filled' = Append(filled, Zeros(Prod(data_shape)))
    /\ UNCHANGED <<nfill, r_item, r_shape, r_ret>>

-----------------------------------------------------------------------------
(* Indexing: __getitem__ *)

(* np.squeeze(a[indices]) as array `fld` of object `slot`.  Slicing an      *)
(* ndarray gives a view on the same buffer; a 0-d array or a numpy scalar   *)
(* indexed with () gives a numpy scalar holding a copy of the value.        *)
Indexed(m, a, indices, slot, fld) ==
    IF Len(indices) > Len(a.shape)
    THEN [exc |-> "IndexError", arr |-> a, buf |-> <<>>]
    ELSE IF Len(a.shape) = 0
    THEN [exc |-> "",
          arr |-> FreshArr(slot, fld, <<>>, 1, TRUE, a.dtype),
          buf |-> <<Values(m, a)[1]>>]
    ELSE [exc |-> "", arr |-> Squeeze(SliceView(a, indices)), buf |-> <<>>]

(* lines 61-70 *)
GetItemResult(m, h, item, slot, src) ==
    LET r == ConvertItem(item, h.shape)
        d == Indexed(m, h.data, r.indices, slot, "data")
        u == Indexed(m, h.underflow, DropLast(r.indices), slot, "underflow")
        o == Indexed(m, h.overflow, DropLast(r.indices), slot, "overflow")
        new == NewHistogram(slot, h.bins, r.data_shape, Origin("getitem", src, 0, 0))
    IN  IF r.exc # "" THEN [exc |-> r.exc, obj |-> h, buf |-> NewBuffers(<<>>, 0)]
        ELSE IF d.exc # "" THEN [exc |-> d.exc, obj |-> h, buf |-> NewBuffers(<<>>, 0)]
        ELSE IF u.exc # "" THEN [exc |-> u.exc, obj |-> h, buf |-> NewBuffers(<<>>, 0)]
        ELSE IF o.exc # "" THEN [exc |-> o.exc, obj |-> h, buf |-> NewBuffers(<<>>, 0)]
        ELSE [exc |-> "",
              obj |-> [new EXCEPT !.data = d.arr, !.underflow = u.arr,
                                  !.overflow = o.arr],
              buf |-> [data |-> d.buf, underflow |-> u.buf, overflow |-> o.buf]]

(* selectors handed to __getitem__: a bare int, or a tuple no longer than   *)
(* the grid rank the object records                                         *)
ViewComps ==
    {IntC(v) : v \in Ints}
    \cup { Whole, NoneC,
           SliceC(Some(0), Some(1), None),
           SliceC(Some(1), Some(2), Some(1)),
           SliceC(Some(0), Some(MaxDim), None),
           SliceC(Some(0), Some(MaxDim), Some(1)),
           SliceC(Some(0), Some(MaxDim + 1), None) }

Selectors(h) ==
    {BareItem(v) : v \in Ints}
    \cup {TupleItem(cs) : cs \in SeqsUpTo(ViewComps, Len(h.shape) - 1)}

GetItem(s, item) ==
    /\ Len(hist) < MaxHist
    /\ LET slot == Len(hist) + 1
           r == GetItemResult(mem, hist[s], item, slot, s)
       IN  /\ r.exc = ""
           /\ hist' = Append(hist, r.obj)
           /\ mem' = Append(mem, r.buf)
           /\ filled' = Append(filled, Zeros(Len(r.buf.underflow)))
    /\ UNCHANGED <<nfill, r_item, r_shape, r_ret>>

-----------------------------------------------------------------------------
(* Algebra: _is_compatible, __add__, __eq__, combine *)

(* lines 104-111: "" when compatible, else the exception raised *)
IsCompatible(a, b) ==
    IF a.shape # b.shape THEN "ValueError"
    ELSE IF a.bins # b.bins THEN "AssertionError"
    ELSE ""

(* the result of an arithmetic operation as array `fld` of object `slot`:   *)
(* a numpy scalar when its rank is 0                                        *)
Computed(slot, fld, shape, vals, dtype) ==
    [arr |-> FreshArr(slot, fld, shape, Len(vals), Len(shape) = 0, dtype),
     buf |-> vals]

(* an addition that forgets its right operand *)
PlusLeft(m, a, b, slot, fld) ==
    Computed(slot, fld, BroadcastShape(a.shape, b.shape), SumValues(m, a, a),
             WiderDtype(a, b))

(* lines 78-80: a + b on two arrays *)
Plus(m, a, b, slot, fld) ==
    Computed(slot, fld, BroadcastShape(a.shape, b.shape), SumValues(m, a, b),
             WiderDtype(a, b))

(* lines 72-82 *)
AddResult(m, a, b, slot, ia, ib) ==
    LET c == IsCompatible(a, b)
        new == NewHistogram(slot, a.bins, DropLast(a.shape), Origin("add", ia, ib, 0))
    IN  IF c # "" THEN [exc |-> c, obj |-> a, buf |-> NewBuffers(<<>>, 0)]
        ELSE IF ~ /\ CanBroadcast(a.data.shape, b.data.shape)
                  /\ CanBroadcast(a.overflow.shape, b.overflow.shape)
                  /\ CanBroadcast(a.underflow.shape, b.underflow.shape)
        THEN [exc |-> "ValueError", obj |-> a, buf |-> NewBuffers(<<>>, 0)]
        ELSE LET d == Plus(m, a.data, b.data, slot, "data")
                 o == Plus(m, a.overflow, b.overflow, slot, "overflow")
                 u == Plus(m, a.underflow, b.underflow, slot, "underflow")
             IN  [exc |-> "",
                  obj |-> [new EXCEPT !.data = d.arr, !.overflow = o.arr,
                                      !.underflow = u.arr],
                  buf |-> [data |-> d.buf, underflow |-> u.buf, overflow |-> o.buf]]

Add(a, b) ==
    /\ Len(hist) < MaxHist
    /\ LET slot == Len(hist) + 1
           r == AddResult(mem, hist[a], hist[b], slot, a, b)
       IN  /\ r.exc = ""
           /\ hist' = Append(hist, r.obj)
           /\ mem' = Append(mem, r.buf)
           /\ filled' = Append(filled, Zeros(Len(r.buf.underflow)))
    /\ UNCHANGED <<nfill, r_item, r_shape, r_ret>>

(* lines 84-98: "True", "False", or the exception raised.  Comparing arrays *)
(* that do not broadcast ends in an exception in every numpy release.       *)
Eq(m, a, b) ==
    LET c == IsCompatible(a, b)
    IN  IF c # "" THEN c
        ELSE IF ~ /\ CanBroadcast(a.data.shape, b.data.shape)
                  /\ CanBroadcast(a.overflow.shape, b.overflow.shape)
                  /\ CanBroadcast(a.underflow.shape, b.underflow.shape)
        THEN "Error"
        ELSE IF /\ AllEqual(m, a.data, b.data)
                /\ AllEqual(m, a.overflow, b.overflow)
                /\ AllEqual(m, a.underflow, b.underflow)
                /\ a.bins = b.bins
        THEN "True"
        ELSE "False"

Reduced(m, a, axis, slot, fld) ==
    Computed(slot, fld, WithoutAxis(a.shape, axis), AxisSumValues(m, a, axis), "uint64")

(* the axes combine is specified for: the grid axes of the arrays *)
GridAxes(h) ==
    {k \in 0..(Len(h.data.shape) - 2) :
        k < Len(h.overflow.shape) /\ k < Len(h.underflow.shape)}

(* lines 235-246 *)
CombineResult(m, h, axis, slot, src) ==
    LET d == Reduced(m, h.data, axis, slot, "data")
        o == Reduced(m, h.overflow, axis, slot, "overflow")
        u == Reduced(m, h.underflow, axis, slot, "underflow")
        new == NewHistogram(slot, h.bins, DropLast(d.arr.shape),
                            Origin("combine", src, 0, axis))
    IN  [obj |-> [new EXCEPT !.data = d.arr, !.overflow = o.arr, !.underflow = u.arr],
         buf |-> [data |-> d.buf, underflow |-> u.buf, overflow |-> o.buf]]

Combine(s, axis) ==
    /\ Len(hist) < MaxHist
    /\ axis \in GridAxes(hist[s])
    /\ LET slot == Len(hist) + 1
           r == CombineResult(mem, hist[s], axis, slot, s)
       IN  /\ hist' = Append(hist, r.obj)
           /\ mem' = Append(mem, r.buf)
           /\ filled' = Append(filled, Zeros(Len(r.buf.underflow)))
    /\ UNCHANGED <<nfill, r_item, r_shape, r_ret>>

-----------------------------------------------------------------------------
(* Filling and resetting *)

(* where the binning routine puts sample v: "under", "over", or bin i       *)
(* (0-based), the largest i with bins[i] <= v                               *)
BinOf(v, bins) ==
    LET n == Len(bins) - 1
    IN  IF v < bins[1] THEN [k |-> "under", i |-> 0]
        ELSE IF v >= bins[n + 1] THEN [k |-> "over", i |-> 0]
        ELSE [k |-> "bin",
              i |-> (CHOOSE j \in 1..n : bins[j] <= v /\ v < bins[j + 1]) - 1]

(* the buffer position one sample of cell k (1-based) increments *)
Target(h, k, v) ==
    LET b == BinOf(v, h.bins)
    IN  CASE b.k = "under" -> <<h.underflow.base, "underflow", h.underflow.offs[k]>>
          [] b.k = "over" -> <<h.overflow.base, "overflow", h.overflow.offs[k]>>
          [] OTHER -> <<h.data.base, "data", h.data.offs[(k - 1) * h.n_bins + b.i + 1]>>

(* the cells a fill call addresses: all of them for indices = (), those     *)
(* with first coordinate i for indices = i                                  *)
FillCells(h, indices) ==
    LET gs == GridOf(h)
    IN  IF indices = None THEN 1..Prod(gs)
        ELSE IF Len(gs) = 0 THEN {}
        ELSE {k \in 1..Prod(gs) : CoordOf(gs, k, 1) = indices[1]}

(* what ndpointer(c_uint, flags="C_CONTIGUOUS") accepts *)
Accepted(a) == ~a.scalar /\ a.dtype = "uint32" /\ IsContiguous(a)

(* lines 113-134.  The call is modelled for objects whose arrays agree with *)
(* the shape they record: n_0 and n_1 then describe the arrays handed over. *)
Fill(s, indices, n, batch) ==
    LET h == hist[s]
        cells == FillCells(h, indices)
        Hits(b, f, o) ==
            Cardinality({p \in cells \X (1..n) : Target(h, p[1], batch[p[1]][p[2]]) = <<b, f, o>>})
        Upd(b, f) == [o \in DOMAIN mem[b][f] |-> mem[b][f][o] + Hits(b, f, o)]
    IN  /\ WellFormed(h)
        /\ Accepted(h.data) /\ Accepted(h.underflow) /\ Accepted(h.overflow)
        /\ indices # None =>
              /\ Len(GridOf(h)) >= 1
              /\ indices[1] >= 0
              /\ indices[1] < h.data.shape[1]
        /\ mem' = [b \in DOMAIN mem |->
                     [data |-> Upd(b, "data"),
                      underflow |-> Upd(b, "underflow"),
                      overflow |-> Upd(b, "overflow")]]
        /\ filled' = [b \in DOMAIN filled |->
                        [c \in DOMAIN filled[b] |->
                           IF b = h.underflow.base
                              /\ \E k \in cells : h.underflow.offs[k] = c
                           THEN filled[b][c] + n
                           ELSE filled[b][c]]]
        /\ nfill' = nfill + n * Cardinality(cells)
        /\ UNCHANGED <<hist, r_item, r_shape, r_ret>>

Batches(h, indices, n) == [FillCells(h, indices) -> [1..n -> SampleValues]]

FillIndices == {None} \cup {Some(i) : i \in 0..(MaxDim - 1)}

(* batch lengths that fit the samples left in the run *)
FillLengths(h, indices, budget) ==
    1..((budget - nfill) \div Max2(1, Cardinality(FillCells(h, indices))))

(* ndarray.fill(0) writes through the window; on a numpy scalar it changes  *)
(* nothing                                                                  *)
Zeroed(a, b, f, o) ==
    /\ ~a.scalar
    /\ a.base = b
    /\ a.fld = f
    /\ \E k \in 1..Len(a.offs) : a.offs[k] = o

(* lines 136-140 *)
Reset(s) ==
    LET h == hist[s]
        Upd(b, f) ==
            [o \in DOMAIN mem[b][f] |->
               IF \/ Zeroed(h.data, b, f, o)
                  \/ Zeroed(h.underflow, b, f, o)
                  \/ Zeroed(h.overflow, b, f, o)
               THEN 0 ELSE mem[b][f][o]]
    IN  /\ mem' = [b \in DOMAIN mem |->
                     [data |-> Upd(b, "data"),
                      underflow |-> Upd(b, "underflow"),
                      overflow |-> Upd(b, "overflow")]]
        /\ filled' = [b \in DOMAIN filled |->
                        [c \in DOMAIN filled[b] |->
                           IF Zeroed(h.underflow, b, "underflow", c)
                           THEN 0 ELSE filled[b][c]]]
        /\ UNCHANGED <<hist, nfill, r_item, r_shape, r_ret>>

-----------------------------------------------------------------------------
(* Statistics.  A statistic is an array of values over cells: a number, NaN *)
(* or a masked element of a numpy masked array.                             *)

Num(x) == [k |-> "num", v |-> x]
NaN == [k |-> "nan", v |-> 0]
Masked == [k |-> "masked", v |-> 0]

(* lines 248-258 *)
IsEmpty(m, h) == ~(SumSeq(Values(m, h.data)) > 0)

(* an argmax that always answers bin 0 *)
ArgMaxFirst(c) == 1

(* np.argmax over the bins of one cell: the first bin holding the maximum *)
ArgMax(c) ==
    CHOOSE j \in 1..Len(c) :
        /\ \A i \in 1..Len(c) : c[i] <= c[j]
        /\ \A i \in 1..(j - 1) : c[i] < c[j]

(* lines 192-203 *)
Mode(m, h) ==
    IF IsEmpty(m, h)
    THEN [shape |-> CellShape(h), vals |-> [k \in 1..Prod(CellShape(h)) |-> NaN]]
    ELSE [shape |-> GridOf(h),
          vals |-> [k \in 1..Prod(GridOf(h)) |-> Num(h.bins[ArgMax(CellCounts(m, h, k))])]]

(* the bins of cell k left unmasked by mask = (data <= 0) *)
Occupied(m, h, k) == {j \in 1..h.n_bins : ~(CellCounts(m, h, k)[j] <= 0)}

(* lines 205-218 and 220-233.  np.ma.masked_array reshapes a mask of the    *)
(* same size and refuses one of another size.                               *)
Extreme(m, h, least) ==
    IF IsEmpty(m, h)
    THEN [exc |-> "", shape |-> CellShape(h),
          vals |-> [k \in 1..Prod(CellShape(h)) |-> NaN]]
    ELSE IF Prod(h.shape) # Prod(h.data.shape)
    THEN [exc |-> "MaskError", shape |-> <<>>, vals |-> <<>>]
    ELSE [exc |-> "", shape |-> CellShape(h),
          vals |-> [k \in 1..Prod(CellShape(h)) |->
                      LET occ == Occupied(m, h, k)
                      IN  IF occ = {} THEN Masked
                          ELSE IF least
                          THEN Num(h.bins[CHOOSE j \in occ : \A i \in occ : j <= i])
                          ELSE Num(h.bins[CHOOSE j \in occ : \A i \in occ : j >= i])]]

HistMin(m, h) == Extreme(m, h, TRUE)
HistMax(m, h) == Extreme(m, h, FALSE)

-----------------------------------------------------------------------------
(* The index resolver called on its own *)

Pending == [exc |-> "pending", indices |-> <<>>, data_shape |-> <<>>]

ResolverShapes == {g \o <<nb>> : g \in GridShapes, nb \in Dims}

ResolverItems(shape) ==
    {BareItem(v) : v \in Ints} \cup {TupleItem(cs) : cs \in SeqsUpTo(Comps, Len(shape))}

Resolve ==
    /\ r_ret = Pending
    /\ r_ret' = ConvertItem(r_item, r_shape)
    /\ UNCHANGED <<hist, mem, filled, nfill, r_item, r_shape>>

-----------------------------------------------------------------------------
(* Specifications *)

Init ==
    /\ hist = <<>>
    /\ mem = <<>>
    /\ filled = <<>>
    /\ nfill = 0
    /\ r_item = BareItem(0)
    /\ r_shape = <<1>>
    /\ r_ret = Pending

Next ==
    \/ \E e \in EdgeInputs, g \in ConstructShapes : Construct(e, g)
    \/ \E s \in Slots : \E item \in Selectors(hist[s]) : GetItem(s, item)
    \/ \E a \in Slots, b \in Slots : Add(a, b)
    \/ \E s \in Slots, axis \in 0..(MaxRank - 1) : Combine(s, axis)
    \/ \E s \in Slots, indices \in FillIndices :
          \E n \in FillLengths(hist[s], indices, MaxFilled) :
             \E batch \in Batches(hist[s], indices, n) : Fill(s, indices, n, batch)
    \/ \E s \in Slots : Reset(s)

Spec == Init /\ [][Next]_vars

(* fill calls on freshly constructed histograms only *)
NextFill ==
    \/ \E e \in EdgeInputs, g \in ConstructShapes : Len(hist) = 0 /\ Construct(e, g)
    \/ \E s \in Slots, indices \in FillIndices :
          \E n \in FillLengths(hist[s], indices, MaxSamples) :
             \E batch \in Batches(hist[s], indices, n) : Fill(s, indices, n, batch)

SpecFill == Init /\ [][NextFill]_vars

(* one call of _convert_item on each input *)
InitResolve ==
    /\ hist = <<>>
    /\ mem = <<>>
    /\ filled = <<>>
    /\ nfill = 0
    /\ r_shape \in ResolverShapes
    /\ r_item \in ResolverItems(r_shape)
    /\ r_ret = Pending

NextResolve == Resolve

SpecResolve == InitResolve /\ [][NextResolve]_vars

-----------------------------------------------------------------------------
(* Vocabulary of the properties *)

Obj(s) == hist[s]

(* the three arrays of an object as values *)
ObjValues(m, h) == <<Values(m, h.data), Values(m, h.underflow), Values(m, h.overflow)>>

(* every array shape of two objects agrees, and so do the shapes they record *)
SameShape(a, b) ==
    /\ a.shape = b.shape
    /\ a.data.shape = b.data.shape
    /\ a.underflow.shape = b.underflow.shape
    /\ a.overflow.shape = b.overflow.shape

SameContents(m, a, b) == ObjValues(m, a) = ObjValues(m, b)

(* a step that is a fill call on object s *)
FillStep(s, budget) ==
    \E indices \in FillIndices :
       \E n \in FillLengths(hist[s], indices, budget) :
          \E batch \in Batches(hist[s], indices, n) : Fill(s, indices, n, batch)

(* the objects that exist are left as they are by a step *)
OthersUnchanged ==
    \A s \in Slots : hist'[s] = hist[s] /\ ObjValues(mem', hist[s]) = ObjValues(mem, hist[s])

-----------------------------------------------------------------------------
-----------------------------------------------------------------------------
(* Vocabulary of the index resolver's properties *)

Resolved == r_ret # Pending

(* the grid the resolver's shape describes: the shape without the bin axis *)
Grid(shape) == DropLast(shape)

(* the components of the selector as the caller wrote them *)
Written(item) == IF item.bare THEN <<IntC(item.v)>> ELSE item.comps

(* a component out of bounds for an axis of size n: an integer that is       *)
(* negative or >= n, a range with start and stop given whose start is        *)
(* negative or whose stop is greater than n                                  *)
OutOfBounds(c, n) ==
    \/ c.t = "int" /\ (c.v < 0 \/ c.v >= n)
    \/ /\ c.t = "slice"
       /\ c.start # None
       /\ c.stop # None
       /\ (c.start[1] < 0 \/ c.stop[1] > n)

HasOutOfBounds(item, shape) ==
    \E i \in 1..Min2(Len(Written(item)), Len(shape)) : OutOfBounds(Written(item)[i], shape[i])

IsWholeAxis(c) == c.t = "slice" /\ c.start = None /\ c.stop = None

(* a selector of in-bounds integers and whole-axis ranges, no longer than    *)
(* the grid rank                                                             *)
PlainSelector(item, shape) ==
    /\ Len(Written(item)) <= Len(Grid(shape))
    /\ \A i \in 1..Len(Written(item)) :
          \/ IsWholeAxis(Written(item)[i])
          \/ /\ Written(item)[i].t = "int"
             /\ Written(item)[i].v >= 0
             /\ Written(item)[i].v < shape[i]

AddressedByInt(item, i) == i <= Len(Written(item)) /\ Written(item)[i].t = "int"

(* the sizes, in order, of the grid axes from i on not addressed by an int *)
RECURSIVE FreeAxes(_, _, _)
FreeAxes(item, grid, i) ==
    IF i > Len(grid) THEN <<>>
    ELSE IF AddressedByInt(item, i) THEN FreeAxes(item, grid, i + 1)
    ELSE <<grid[i]>> \o FreeAxes(item, grid, i + 1)

-----------------------------------------------------------------------------
(* C4: the index resolver raises an index error for every selector with an  *)
(* out-of-bounds component: an integer that is negative or >= its axis size, *)
(* or a bounded range, with or without a step, whose start is negative or    *)
(* whose stop is greater than its axis size.                                 *)
C4_OutOfBoundsRaises ==
    (Resolved /\ HasOutOfBounds(r_item, r_shape)) => r_ret.exc = "IndexError"

(* C10: for a selector of in-bounds integers and whole-axis ranges no longer *)
(* than the grid rank, the resolver returns a selection that narrows each    *)
(* integer-addressed axis to that one coordinate and takes every other axis  *)
(* whole, and the output shape is the sizes, in order, of the grid axes not  *)
(* addressed by an integer.                                                  *)
C10_PlainSelectorResolves ==
    (Resolved /\ PlainSelector(r_item, r_shape)) =>
        /\ r_ret.exc = ""
        /\ Len(r_ret.indices) = Len(r_shape)
        /\ \A i \in 1..Len(r_shape) :
              SliceCoords(r_ret.indices[i], r_shape[i]) =
                 IF AddressedByInt(r_item, i)
                 THEN <<Written(r_item)[i].v>>
                 ELSE [j \in 1..r_shape[i] |-> j - 1]
        /\ r_ret.data_shape = FreeAxes(r_item, Grid(r_shape), 1)

(* selector (1,) resolved on a grid of two axes: the first collapses, the    *)
(* second, absent from the selector, is taken whole                          *)
C10_Witness ==
    /\ Resolved
    /\ r_item = TupleItem(<<IntC(1)>>)
    /\ Len(Grid(r_shape)) = 2
    /\ r_shape[1] >= 2
    /\ r_shape[2] >= 2
    /\ r_ret.data_shape = <<r_shape[2]>>

-----------------------------------------------------------------------------
(* C2: a histogram returned by indexing is an independent copy: reset and   *)
(* fill applied to it leave the owner's counts, underflow and overflow      *)
(* unchanged, and mutating the owner never changes the returned histogram.  *)
C2_IndexingCopies ==
    [][\A g \in Slots :
          Obj(g).origin.op = "getitem" =>
             LET o == Obj(g).origin.a
             IN  /\ (Reset(g) \/ FillStep(g, MaxFilled)) =>
                       ObjValues(mem', Obj(o)) = ObjValues(mem, Obj(o))
                 /\ (Reset(o) \/ FillStep(o, MaxFilled)) =>
                       ObjValues(mem', Obj(g)) = ObjValues(mem, Obj(g))]_vars

(* C3: every histogram reachable by construction, indexing, add, combine    *)
(* and reset has counts.shape[:-1] = underflow.shape = overflow.shape = its *)
(* recorded cell shape.                                                     *)
C3_ShapesAgree ==
    \A s \in Slots :
       /\ DropLast(Obj(s).data.shape) = CellShape(Obj(s))
       /\ Obj(s).underflow.shape = CellShape(Obj(s))
       /\ Obj(s).overflow.shape = CellShape(Obj(s))

(* C5: equals(a, b) and add(a, b) raise whenever a and b differ in shape or *)
(* in a bin edge; equality returns false only when shapes and edges match   *)
(* and an element of counts, underflow or overflow differs, and true        *)
(* exactly when all of them match.                                          *)
C5_IncompatibleRaises ==
    \A a \in Slots, b \in Slots :
       LET e == Eq(mem, Obj(a), Obj(b))
           r == AddResult(mem, Obj(a), Obj(b), Len(hist) + 1, a, b)
           alike == SameShape(Obj(a), Obj(b)) /\ Obj(a).bins = Obj(b).bins
       IN  /\ ~alike => (e \notin {"True", "False"} /\ r.exc # "")
           /\ e = "False" => (alike /\ ~SameContents(mem, Obj(a), Obj(b)))
           /\ e = "True" <=> (alike /\ SameContents(mem, Obj(a), Obj(b)))

(* C6: for two compatible histograms a and b (same shape, same edges),      *)
(* add(a, b) returns a new histogram whose counts, underflow and overflow   *)
(* are the element-wise sums and whose edges are a's, and leaves a and b    *)
(* unchanged; add(h, h) doubles every count of h.                           *)
C6_AddSums ==
    [][(Len(hist') = Len(hist) + 1 /\ hist'[Len(hist')].origin.op = "add") =>
          LET new == hist'[Len(hist')]
              a == new.origin.a
              b == new.origin.b
              va == ObjValues(mem, Obj(a))
              vb == ObjValues(mem, Obj(b))
              vn == ObjValues(mem', new)
          IN  (SameShape(Obj(a), Obj(b)) /\ Obj(a).bins = Obj(b).bins) =>
                 /\ new.bins = Obj(a).bins
                 /\ SameShape(new, Obj(a))
                 /\ \A f \in 1..3 :
                       /\ Len(vn[f]) = Len(va[f])
                       /\ \A k \in 1..Len(vn[f]) : vn[f][k] = va[f][k] + vb[f][k]
                 /\ a = b => \A f \in 1..3 :
                                \A k \in 1..Len(vn[f]) : vn[f][k] = 2 * va[f][k]
                 /\ OthersUnchanged]_vars

(* h + h added to h again: a sum of two distinct operands that holds a count *)
(* of three, one of the operands being itself a doubled histogram           *)
C6_Witness ==
    \E s \in Slots :
       /\ Obj(s).origin.op = "add"
       /\ Obj(s).origin.a # Obj(s).origin.b
       /\ \E k \in 1..Len(Obj(s).data.offs) : Values(mem, Obj(s).data)[k] = 3

(* the element of the reduced array that element q of an array of shape sh  *)
(* is added to when axis k (0-based) is summed away                         *)
LandsAt(sh, k, q) ==
    FlatOf(WithoutAxis(sh, k),
           [i \in 1..(Len(sh) - 1) |->
              IF i <= k THEN CoordOf(sh, q, i) ELSE CoordOf(sh, q, i + 1)])

(* C7: for every histogram with at least one grid axis and every grid axis  *)
(* k, combine(h, k) returns a new histogram of rank one less with the same  *)
(* edges, whose counts, underflow and overflow at each remaining coordinate  *)
(* are the sums of h's values over axis k (the grand totals are preserved), *)
(* and h is unchanged.                                                      *)
C7_CombineSums ==
    [][(Len(hist') = Len(hist) + 1 /\ hist'[Len(hist')].origin.op = "combine") =>
          LET new == hist'[Len(hist')]
              h == Obj(new.origin.a)
              k == new.origin.axis
              src == <<h.data, h.underflow, h.overflow>>
              dst == <<new.data, new.underflow, new.overflow>>
          IN  /\ new.bins = h.bins
              /\ new.shape = new.data.shape
              /\ \A f \in 1..3 :
                    LET vs == Values(mem, src[f])
                        vd == Values(mem', dst[f])
                    IN  /\ dst[f].shape = WithoutAxis(src[f].shape, k)
                        /\ Len(vd) = Prod(dst[f].shape)
                        /\ \A r \in 1..Len(vd) :
                              vd[r] = SumSeq([q \in 1..Len(vs) |->
                                                IF LandsAt(src[f].shape, k, q) = r
                                                THEN vs[q] ELSE 0])
                        /\ SumSeq(vd) = SumSeq(vs)
              /\ OthersUnchanged]_vars

(* a reduction that merged a filled cell into a cell of the result *)
C7_Witness ==
    \E s \in Slots :
       /\ Obj(s).origin.op = "combine"
       /\ Len(Obj(Obj(s).origin.a).data.shape) = 3
       /\ SumSeq(Values(mem, Obj(s).data))
            + SumSeq(Values(mem, Obj(s).underflow))
            + SumSeq(Values(mem, Obj(s).overflow)) > 0

-----------------------------------------------------------------------------
(* C8: for every histogram and every cell, min() returns the position of    *)
(* the lowest bin with count > 0 of that cell and max() the position of the *)
(* highest one; a cell with no occupied bin yields NaN, also when other     *)
(* cells of the same grid are non-empty.                                    *)
C8_ExtremesOrNaN ==
    \A s \in Slots :
       LET h == Obj(s)
           lo == HistMin(mem, h)
           hi == HistMax(mem, h)
       IN  /\ lo.exc = "" /\ hi.exc = ""
           /\ Len(lo.vals) = Prod(GridOf(h)) /\ Len(hi.vals) = Prod(GridOf(h))
           /\ \A k \in 1..Prod(GridOf(h)) :
                 LET c == CellCounts(mem, h, k)
                 IN  IF \A j \in 1..h.n_bins : c[j] = 0
                     THEN lo.vals[k] = NaN /\ hi.vals[k] = NaN
                     ELSE /\ \E j \in 1..h.n_bins :
                               /\ c[j] > 0 /\ lo.vals[k] = Num(h.bins[j])
                               /\ \A i \in 1..(j - 1) : c[i] = 0
                          /\ \E j \in 1..h.n_bins :
                               /\ c[j] > 0 /\ hi.vals[k] = Num(h.bins[j])
                               /\ \A i \in (j + 1)..h.n_bins : c[i] = 0

(* C9: mode() returns NaN for every cell when the total count over the      *)
(* whole grid is zero; otherwise it returns, for each cell, the left edge   *)
(* of a bin whose count is the highest of the cell, so a cell whose only    *)
(* sample landed in bin i has mode edges[i].                                *)
C9_ModeLeftEdge ==
    \A s \in Slots :
       LET h == Obj(s)
           r == Mode(mem, h)
       IN  /\ Len(r.vals) = Prod(GridOf(h))
           /\ IF SumSeq(Values(mem, h.data)) = 0
              THEN \A k \in 1..Len(r.vals) : r.vals[k] = NaN
              ELSE \A k \in 1..Len(r.vals) :
                      LET c == CellCounts(mem, h, k)
                      IN  /\ \E j \in 1..h.n_bins :
                                /\ r.vals[k] = Num(h.bins[j])
                                /\ \A i \in 1..h.n_bins : c[i] <= c[j]
                          /\ \A j \in 1..h.n_bins :
                                (c[j] = 1 /\ SumSeq(c) = 1) => r.vals[k] = Num(h.bins[j])

(* a grid with an empty cell next to a cell whose second bin holds more     *)
(* samples than its first                                                   *)
C9_Witness ==
    \E s \in Slots :
       /\ Prod(GridOf(Obj(s))) = 2
       /\ \E k \in 1..2 :
             /\ CellCounts(mem, Obj(s), k)[1] = 1
             /\ CellCounts(mem, Obj(s), k)[2] = 2
             /\ SumSeq(CellCounts(mem, Obj(s), 3 - k)) = 0

====
